---- MODULE Spec2Model ----
(***************************************************************************)
(* notbot (Go, IRC era): the presence watchers.                            *)
(*                                                                         *)
(*   Spec      JitsiClient.Run, the room membership watcher (jitsi.go)     *)
(*   SpecDiff  listSubstract, the set-diff engine (helpers.go)             *)
(*   SpecPoll  atMonitor.Run / spaceApiClient.Run, the polling watchers    *)
(*   SpecWrap  JitsiRunWrapper / spaceApiRunWrapper, start-up and shutdown *)
(*   SpecHttp  httpGet, the snapshot fetcher (helpers.go)                  *)
(*   SpecRegistry  Dispatchers.Add and handlerFactory (plugins.go)         *)
(*   SpecLegacy  atMonitor.Run of notifier.go and of the older main.go     *)
(*                                                                         *)
(* Strings that the code slices or sorts (nicks, logins) are sequences of  *)
(* bytes; strings that are only compared (jids, stanza types) are TLA+     *)
(* strings.                                                                *)
(***************************************************************************)
EXTENDS Integers, Sequences, FiniteSets, TLC

VARIABLES
    \* ---- JitsiClient.Run
    pc,         \* where Run is: "dial", "handshake", "select", "read", "reconnect", "stopped"
    users,      \* j.users: map[jid]nick
    notices,    \* the NOTICE lines Run has written to the IRC client, oldest first
    v,          \* the presence stanza decoded from the last frame read
    sent,       \* number of initFrames written on the current connection
    conn,       \* ws: the connection of the current cycle, numbered in the order dialled; 0 before the first
    wire,       \* the handshake frames written on the current connection, in the order written
    keepalive,  \* the goroutines started with "go j.KeepAlive(ws)": connection -> "alive" or "returned"
    done,       \* the channel value Run was given: NilChan or OpenChan
    offered,    \* a sender is blocked in "done <- true" on Run's channel
    \* ---- listSubstract and the polling watchers
    kind,       \* which code runs: "diff" (listSubstract alone), "at" or "spaceapi"
    previous,   \* a.previousUserList / s.users: the stored snapshot
    current,    \* the snapshot of the last tick
    arrived,    \* listSubstract(current, previous) of the last tick
    left,       \* listSubstract(previous, current) of the last tick
    alsoThere,  \* listSubstract(previous, left) of the last tick
    lines,      \* the lines the last tick wrote to the IRC client
    err,        \* how the fetch of the last tick ended: "none", "fetch", "decode"; "notick" before the first
    lastFetched, \* the snapshot of the last tick that computed a diff (bookkeeping of the model)
    \* ---- JitsiRunWrapper / spaceApiRunWrapper
    channels,   \* jitsiChannels / spaceApiChannels: the mapping strings, as lists of characters
    idx,        \* the index the current range loop is at (1-based)
    doneChans,  \* jitsiDone / spaceApiDone: one channel value per mapping string
    watchers,   \* the goroutines started with "go j.Run" / "go s.Run": index -> "running" or "stopped"
    \* ---- httpGet
    resp,       \* the bytes of the response body, as the server sends them
    off,        \* how many of them resp.Body has delivered
    lim,        \* limitedResponse: the bytes the MaxBytesReader may still deliver (l.n)
    hbuf,       \* buf[:i]: the bytes io.ReadFull has read so far
    rerr,       \* err of the last Read in io.ReadFull
    got,        \* what httpGet returned: the data and the error
    \* ---- Dispatchers and handlerFactory
    list,       \* Dispatchers.list
    lock,       \* Dispatchers.lock: "free" or the caller of Add that holds it
    adding,     \* each caller of Add: "start", "locked" or "done"
    handler,    \* the slice the closure of handlerFactory has captured; "none" before
    heap,       \* the irc.Message values in memory: reference -> message
    tasks,      \* the goroutines started with "go f(c, m.Copy())", in the order started
    inbound,    \* the reference m of the message the handler is called with; 0 between calls
    di          \* the index the handler's range loop is at

jvars == <<users, notices, v, sent, conn, wire, keepalive>>
rvars == <<pc, done, offered>>
dvars == <<kind, previous, current, arrived, left, alsoThere, lines, err, lastFetched>>
wvars == <<channels, idx, doneChans, watchers>>
hvars == <<resp, off, lim, hbuf, rerr, got>>
gvars == <<list, lock, adding, handler, heap, tasks, inbound, di>>
vars  == <<rvars, jvars, dvars, wvars, hvars, gvars>>

(***************************************************************************)
(* Values                                                                  *)
(***************************************************************************)

\* three display names: "a", "ao" (the same first character), and "év" whose first
\* character takes two bytes
NameA == <<97>>
NameB == <<97, 111>>
NameC == <<195, 169, 118>>
Names == {NameA, NameB, NameC}

\* U+200B (zero width space) in UTF-8
ZWSP == <<226, 128, 139>>

\* mutant of Obfuscate: only the first byte of the name is kept
ObfuscateFirstByteOnly(s) == SubSeq(s, 1, 1) \o ZWSP

\* s[:1] + "\u200B" + s[1:]   (Go slices strings by byte; s is not empty)
Obfuscate(s) == SubSeq(s, 1, 1) \o ZWSP \o SubSeq(s, 2, Len(s))

Range(s) == {s[i] : i \in 1..Len(s)}

(***************************************************************************)
(* JitsiClient.Run                                                         *)
(***************************************************************************)

MaxNotices == 2

Jids  == {"k1", "k2"}
Nicks == {NameA, NameB}

NilChan  == "nil"
OpenChan == "chan"

\* the six frames of initFrames
InitFrames == 6

\* initFrames, by what each frame is
InitFrameNames == <<"open", "auth", "open", "bind", "session", "presence">>

\* successful dials of one run
MaxConns == 2

\* what xml.Unmarshal leaves in v: ok is "err == nil"; only Type, Nick.Text and
\* X.Item.Jid are read afterwards
Stanzas == [ok : {TRUE}, type : {"", "unavailable"}, nick : {<<>>} \cup Nicks, jid : {""} \cup Jids]
NoStanza == [ok |-> FALSE, type |-> "", nick |-> <<>>, jid |-> ""]
Frames == Stanzas \cup {NoStanza}

\* fmt.Sprintf("NOTICE %s :jitsi: +%s\n", j.ircChannel, nickZws); jid is bookkeeping
\* of the model (the participant the line is about), not part of the line
Notice(sign, nick, jid) == [sign |-> sign, text |-> Obfuscate(nick), jid |-> jid]

\* mutant of IsRename: the test for a non-empty nick is missing
IsRenameAnyNick(f, u) ==
    /\ f.jid # ""
    /\ f.jid \in DOMAIN u
    /\ u[f.jid] # f.nick

\* the branch of the stanza handling that f takes in a table u
IsRename(f, u) ==
    /\ f.nick # <<>>
    /\ f.jid # ""
    /\ f.jid \in DOMAIN u
    /\ u[f.jid] # f.nick

\* mutant of IsJoin: the test for a non-empty key is missing
IsJoinAnyKey(f, u) ==
    /\ f.nick # <<>>
    /\ f.jid \notin DOMAIN u

IsJoin(f, u) ==
    /\ f.nick # <<>>
    /\ f.jid # ""
    /\ f.jid \notin DOMAIN u

\* mutant of IsLeave: the unavailable test as the else-branch of the nick test
IsLeaveElseBranch(f, u) ==
    /\ f.nick = <<>>
    /\ f.type = "unavailable"
    /\ f.jid # ""
    /\ f.jid \in DOMAIN u

\* reached when neither of the two branches above ended the iteration with "continue"
IsLeave(f, u) ==
    /\ ~IsRename(f, u)
    /\ ~IsJoin(f, u)
    /\ f.type = "unavailable"
    /\ f.jid # ""
    /\ f.jid \in DOMAIN u

WritesNotice(f, u) == f.ok /\ (IsJoin(f, u) \/ IsLeave(f, u))

\* mutant of UsersAfter: the delete is missing
UsersAfterNoDelete(f, u) ==
    IF ~f.ok THEN u
    ELSE IF IsRename(f, u) THEN [u EXCEPT ![f.jid] = f.nick]
    ELSE IF IsJoin(f, u) THEN u @@ (f.jid :> f.nick)
    ELSE u

\* mutant of UsersAfter: a join is announced but not recorded
UsersAfterForgetsJoin(f, u) ==
    IF ~f.ok THEN u
    ELSE IF IsRename(f, u) THEN [u EXCEPT ![f.jid] = f.nick]
    ELSE IF IsJoin(f, u) THEN u
    ELSE IF IsLeave(f, u) THEN [k \in DOMAIN u \ {f.jid} |-> u[k]]
    ELSE u

UsersAfter(f, u) ==
    IF ~f.ok THEN u
    ELSE IF IsRename(f, u) THEN [u EXCEPT ![f.jid] = f.nick]
    ELSE IF IsJoin(f, u) THEN u @@ (f.jid :> f.nick)
    ELSE IF IsLeave(f, u) THEN [k \in DOMAIN u \ {f.jid} |-> u[k]]
    ELSE u

\* mutant of NoticesAfter: a rename is announced like a join
NoticesAfterLoudRename(f, u, out) ==
    IF ~f.ok THEN out
    ELSE IF IsRename(f, u) \/ IsJoin(f, u) THEN Append(out, Notice("+", f.nick, f.jid))
    ELSE IF IsLeave(f, u) THEN Append(out, Notice("-", u[f.jid], f.jid))
    ELSE out

NoticesAfter(f, u, out) ==
    IF ~f.ok THEN out
    ELSE IF IsRename(f, u) THEN out
    ELSE IF IsJoin(f, u) THEN Append(out, Notice("+", f.nick, f.jid))
    ELSE IF IsLeave(f, u) THEN Append(out, Notice("-", u[f.jid], f.jid))
    ELSE out

\* "case <-done" can be taken: the channel is not nil and a sender is waiting
CanReceive == done # NilChan /\ offered

JInit ==
    /\ pc = "dial"
    /\ users = <<>>
    /\ notices = <<>>
    /\ v = NoStanza
    /\ sent = 0
    /\ conn = 0
    /\ wire = <<>>
    /\ keepalive = <<>>
    /\ done \in {NilChan, OpenChan}
    /\ offered = FALSE

\* websocket.Dial
Dial ==
    /\ pc = "dial"
    /\ \E ok \in BOOLEAN :
          IF ok
          THEN /\ conn < MaxConns
               /\ conn' = conn + 1
               /\ wire' = <<>>
               /\ pc' = "handshake"
          ELSE /\ UNCHANGED <<conn, wire>>
               /\ pc' = "reconnect"
    /\ sent' = 0
    /\ UNCHANGED <<users, notices, v, keepalive, done, offered, dvars, wvars>>
    /\ UNCHANGED <<hvars, gvars>>

\* mutant of WriteFrame: a failed write is logged and the loop goes on with the
\* next frame
WriteFrameSkipsFailed ==
    /\ pc = "handshake"
    /\ \E ok \in BOOLEAN :
          /\ sent' = sent + 1
          /\ wire' = IF ok THEN Append(wire, InitFrameNames[sent + 1]) ELSE wire
          /\ pc' = IF sent + 1 = InitFrames THEN "select" ELSE "handshake"
          /\ keepalive' = IF sent + 1 = InitFrames
                           THEN keepalive @@ (conn :> "alive")
                           ELSE keepalive
    /\ UNCHANGED <<users, notices, v, conn, done, offered, dvars, wvars>>
    /\ UNCHANGED <<hvars, gvars>>

\* one ws.Write of the range over initFrames; after the last one "go j.KeepAlive(ws)"
\* and the read loop
WriteFrame ==
    /\ pc = "handshake"
    /\ \E ok \in BOOLEAN :
          IF ok
          THEN /\ sent' = sent + 1
               /\ wire' = Append(wire, InitFrameNames[sent + 1])
               /\ pc' = IF sent + 1 = InitFrames THEN "select" ELSE "handshake"
               /\ keepalive' = IF sent + 1 = InitFrames
                                THEN keepalive @@ (conn :> "alive")
                                ELSE keepalive
          ELSE /\ sent' = sent
               /\ pc' = "reconnect"
               /\ UNCHANGED <<wire, keepalive>>
    /\ UNCHANGED <<users, notices, v, conn, done, offered, dvars, wvars>>
    /\ UNCHANGED <<hvars, gvars>>

\* select { case <-done: return; default: ... }; the v of the iteration before is
\* out of scope
Select ==
    /\ pc = "select"
    /\ IF CanReceive
       THEN pc' = "stopped" /\ offered' = FALSE
       ELSE pc' = "read" /\ offered' = offered
    /\ v' = NoStanza
    /\ UNCHANGED <<users, notices, sent, conn, wire, keepalive, done, dvars, wvars>>
    /\ UNCHANGED <<hvars, gvars>>

\* mutant of ReadError: a failed read makes Run return
ReadErrorReturns ==
    /\ pc = "read"
    /\ pc' = "stopped"
    /\ v' = NoStanza
    /\ UNCHANGED <<users, notices, sent, conn, wire, keepalive, done, offered, dvars, wvars>>
    /\ UNCHANGED <<hvars, gvars>>

\* mutant of ReadError: a failed read goes straight to the next dial
ReadErrorSkipsBackoff ==
    /\ pc = "read"
    /\ pc' = "dial"
    /\ v' = NoStanza
    /\ UNCHANGED <<users, notices, sent, conn, wire, keepalive, done, offered, dvars, wvars>>
    /\ UNCHANGED <<hvars, gvars>>

\* ws.Read fails
ReadError ==
    /\ pc = "read"
    /\ pc' = "reconnect"
    /\ v' = NoStanza
    /\ UNCHANGED <<users, notices, sent, conn, wire, keepalive, done, offered, dvars, wvars>>
    /\ UNCHANGED <<hvars, gvars>>

\* ws.Read returns a frame: xml.Unmarshal and the handling of the stanza
ReadFrame(f) ==
    /\ pc = "read"
    /\ WritesNotice(f, users) => Len(notices) < MaxNotices
    /\ v' = f
    /\ users' = UsersAfter(f, users)
    /\ notices' = NoticesAfter(f, users, notices)
    /\ pc' = "select"
    /\ UNCHANGED <<sent, conn, wire, keepalive, done, offered, dvars, wvars>>
    /\ UNCHANGED <<hvars, gvars>>

\* reconnect: time.Sleep(1 * time.Second), then the next iteration of the outer loop
Backoff ==
    /\ pc = "reconnect"
    /\ pc' = "dial"
    /\ UNCHANGED <<users, notices, v, sent, conn, wire, keepalive, done, offered, dvars, wvars>>
    /\ UNCHANGED <<hvars, gvars>>

\* mutant of KeepAliveProbe: a failed probe tears the watcher's cycle down
KeepAliveProbeReconnects(c) ==
    /\ c \in DOMAIN keepalive
    /\ keepalive[c] = "alive"
    /\ \E ok \in BOOLEAN :
          IF ok THEN UNCHANGED <<keepalive, pc>>
          ELSE /\ keepalive' = [keepalive EXCEPT ![c] = "returned"]
               /\ pc' = IF pc \in {"select", "read"} THEN "reconnect" ELSE pc
    /\ UNCHANGED <<users, notices, v, sent, conn, wire, done, offered, dvars, wvars>>
    /\ UNCHANGED <<hvars, gvars>>

\* case <-ticker.C of the KeepAlive started for connection c: ws.Write(pingFrame);
\* the task returns when the write fails. Run closes no connection, so whether a
\* write succeeds is up to the network, on an abandoned connection as on the
\* current one
KeepAliveProbe(c) ==
    /\ c \in DOMAIN keepalive
    /\ keepalive[c] = "alive"
    /\ \E ok \in BOOLEAN :
          keepalive' = IF ok THEN keepalive ELSE [keepalive EXCEPT ![c] = "returned"]
    /\ UNCHANGED <<pc, users, notices, v, sent, conn, wire, done, offered, dvars, wvars>>
    /\ UNCHANGED <<hvars, gvars>>

\* the owner of the channel executes "ch <- true"
OfferShutdown ==
    /\ ~offered
    /\ pc # "stopped"
    /\ offered' = TRUE
    /\ UNCHANGED <<pc, done, jvars, dvars, wvars>>
    /\ UNCHANGED <<hvars, gvars>>

RunStep ==
    \/ Dial
    \/ WriteFrame
    \/ Select
    \/ ReadError
    \/ \E f \in Frames : ReadFrame(f)
    \/ Backoff

JNext ==
    \/ RunStep
    \/ OfferShutdown
    \/ \E c \in 1..MaxConns : KeepAliveProbe(c)


(***************************************************************************)
(* Properties of JitsiClient.Run (Spec, FairSpec)                          *)
(***************************************************************************)

\* the step in which Run has read a frame, decoded it to f and handled it
Handled(f) == pc = "read" /\ pc' = "select" /\ v' = f

Without(u, k) == [j \in DOMAIN u \ {k} |-> u[j]]

NoticesOf(k) == SelectSeq(notices, LAMBDA n : n.jid = k)
NoticesOfNext(k) == SelectSeq(notices', LAMBDA n : n.jid = k)

\* a frame that is not about k: it does not decode, or it names another key or none
Unrelated(f, k) == ~f.ok \/ f.jid # k

C2_UnavailableAlwaysRemoves ==
    [][\A f \in Stanzas :
        (Handled(f) /\ f.type = "unavailable" /\ f.jid \in DOMAIN users)
            => /\ f.jid \notin DOMAIN users'
               /\ notices' = Append(notices, Notice("-", users[f.jid], f.jid))
    ]_vars

\* C2 amended: an unavailable stanza for a key of the table that carries no nick, or
\* the nick stored for that key, removes the record and writes one "left" NOTICE;
\* one that carries another nick is handled as a rename: the record stays, with the
\* new nick, and no NOTICE is written.
C2_UnavailableRemovesUnlessRenamed ==
    [][\A f \in Stanzas :
        (Handled(f) /\ f.type = "unavailable" /\ f.jid \in DOMAIN users)
            => IF f.nick = <<>> \/ f.nick = users[f.jid]
               THEN /\ users' = Without(users, f.jid)
                    /\ notices' = Append(notices, Notice("-", users[f.jid], f.jid))
               ELSE /\ users' = [users EXCEPT ![f.jid] = f.nick]
                    /\ notices' = notices
    ]_vars

\* an unavailable stanza that carried the stored nick has removed the record
C2_Witness ==
    /\ pc = "select"
    /\ v.ok /\ v.type = "unavailable" /\ v.nick # <<>> /\ v.jid # ""
    /\ v.jid \notin DOMAIN users
    /\ Len(notices) >= 2
    /\ notices[Len(notices)] = Notice("-", v.nick, v.jid)

\* C3: a stanza that carries a non-empty nick never removes a record and never
\* writes a "left" NOTICE.
C3_NickNeverLeaves ==
    [][\A f \in Stanzas :
        (Handled(f) /\ f.nick # <<>>)
            => /\ DOMAIN users \subseteq DOMAIN users'
               /\ \/ notices' = notices
                  \/ notices' = Append(notices, Notice("+", f.nick, f.jid))
    ]_vars

\* C4: a stanza with a non-empty nick for a key of the table whose stored name differs
\* writes no NOTICE, stores the new nick for that key and changes no other record;
\* and every "left" NOTICE carries the name stored for its key when it is written.
C4_RenameIsSilent ==
    [][\A f \in Stanzas :
        /\ (Handled(f) /\ f.nick # <<>> /\ f.jid \in DOMAIN users /\ users[f.jid] # f.nick)
              => /\ notices' = notices
                 /\ DOMAIN users' = DOMAIN users
                 /\ users'[f.jid] = f.nick
                 /\ \A k \in DOMAIN users \ {f.jid} : users'[k] = users[k]
        /\ (Handled(f) /\ Len(notices') > Len(notices) /\ notices'[Len(notices')].sign = "-")
              => notices'[Len(notices')].text = Obfuscate(users[f.jid])
    ]_vars

\* k arrived under one name, was renamed, and its "left" NOTICE carries the new name
C4_Witness ==
    \E i, j \in 1..Len(notices) :
        /\ i < j
        /\ notices[i].jid = notices[j].jid
        /\ notices[i].sign = "+"
        /\ notices[j].sign = "-"
        /\ notices[i].text # notices[j].text
        /\ \A m \in (i + 1)..(j - 1) : notices[m].jid # notices[i].jid

\* C5: once the shutdown signal is offered on Run's channel, Run reaches "stopped".
C5_ShutdownStops == (offered /\ done = OpenChan) ~> (pc = "stopped")

\* the positions of Run inside its loops
LoopStates == {"dial", "handshake", "select", "read", "reconnect"}

\* C20: Run returns only by taking "case <-done", which needs a sender on a
\* channel that is not nil; after every other step, a failed dial, handshake write
\* or read and an unparseable frame included, Run is at a position of its loop.
C20_ReturnsOnlyOnShutdown ==
    [][/\ (pc # "stopped" /\ pc' = "stopped") => (pc = "select" /\ offered /\ done # NilChan)
       /\ (pc # "stopped" /\ ~(pc = "select" /\ offered /\ done # NilChan)) => pc' \in LoopStates
    ]_vars

\* Run is dialling again after a connection on which it had announced somebody, and
\* no shutdown signal has been sent
C20_Witness ==
    /\ pc = "dial"
    /\ Len(notices) >= 1
    /\ ~offered

\* the positions of Run in which it reads from the connection
Streaming == {"select", "read"}

IsPrefix(s, t) == Len(s) <= Len(t) /\ s = SubSeq(t, 1, Len(s))

\* C21: the frames written on a connection are a prefix of the six frames in their
\* fixed order, each write appends the next one; Run reads, and a keepalive task
\* exists for the connection, only when all six are written; a failed write writes
\* nothing more on the connection, starts no keepalive and leads through the
\* backoff to a new dial.
C21_HandshakeOrder ==
    [][/\ IsPrefix(wire', InitFrameNames)
       /\ wire' # wire =>
            \/ pc = "handshake" /\ wire' = Append(wire, InitFrameNames[Len(wire) + 1])
            \/ pc = "dial" /\ pc' = "handshake" /\ conn' = conn + 1 /\ wire' = <<>>
       /\ pc' \in Streaming => (wire' = InitFrameNames /\ conn' \in DOMAIN keepalive')
       /\ conn' \in DOMAIN keepalive' => wire' = InitFrameNames
       /\ (pc = "handshake" /\ pc' \notin {"handshake", "select"}) =>
            /\ pc' = "reconnect"
            /\ wire' = wire
            /\ conn' = conn
            /\ DOMAIN keepalive' = DOMAIN keepalive
       /\ (pc = "reconnect" /\ pc' # "reconnect") => (pc' = "dial" /\ wire' = wire)
    ]_vars

\* the handshake of the second connection has failed after some of its frames: Run
\* is in the backoff and no keepalive was started for that connection
C21_Witness ==
    /\ pc = "reconnect"
    /\ conn = 2
    /\ Len(wire) \in 1..(InitFrames - 1)
    /\ DOMAIN keepalive = {1}

\* C22: Run gets to a dial only from the backoff sleep, and from the sleep only to
\* a dial; a failed dial, a failed handshake write and a failed read all lead to
\* the sleep; every successful dial starts the handshake from its first frame, and
\* Run reads only from a connection on which all six frames were written.
C22_BackoffBeforeDial ==
    [][/\ (pc' = "dial" /\ pc # "dial") => pc = "reconnect"
       /\ (pc = "reconnect" /\ pc' # "reconnect") => pc' = "dial"
       /\ (pc = "dial" /\ pc' \notin {"dial", "handshake"}) => pc' = "reconnect"
       /\ (pc = "handshake" /\ pc' \notin {"handshake", "select"}) => pc' = "reconnect"
       /\ (pc = "read" /\ pc' \notin {"read", "select"}) => pc' = "reconnect"
       /\ (pc = "dial" /\ pc' = "handshake") => (sent' = 0 /\ wire' = <<>> /\ conn' = conn + 1)
       /\ pc' \in Streaming => (sent' = InitFrames /\ wire' = InitFrameNames)
    ]_vars

\* after a failure and the backoff, the handshake is being repeated on a second
\* connection
C22_Witness ==
    /\ pc = "handshake"
    /\ conn = 2
    /\ sent \in 1..(InitFrames - 1)

\* C23: when Run starts to read from a new connection the membership table is
\* empty, so that every record of a table in Streaming comes from a join received
\* on the current connection.
C23_TableRebuiltOnReconnect ==
    [][(pc = "handshake" /\ pc' = "select") => users' = <<>>]_vars

\* C24: a failed probe makes only its keepalive task return: Run's position, its
\* table, its connection and its NOTICEs stay as they are; and Run leaves
\* Streaming only by a failed read or by taking the shutdown branch.
C24_KeepaliveFailureIsLocal ==
    [][/\ \A c \in DOMAIN keepalive :
            (keepalive[c] = "alive" /\ keepalive'[c] = "returned") =>
                /\ UNCHANGED <<pc, users, notices, conn, wire, sent>>
                /\ \A d \in DOMAIN keepalive \ {c} : keepalive'[d] = keepalive[d]
       /\ (pc \in Streaming /\ pc' \notin Streaming) =>
            \/ pc = "read" /\ pc' = "reconnect"
            \/ pc = "select" /\ pc' = "stopped" /\ offered /\ done # NilChan
    ]_vars

\* the keepalive task of the current connection has returned and Run is still
\* reading from that connection
C24_Witness ==
    /\ pc \in Streaming
    /\ conn \in DOMAIN keepalive
    /\ keepalive[conn] = "returned"

\* a frame that does not parse, or a stanza that is neither a join for an unknown
\* key, nor a rename of a known key, nor an unavailable for a known key
Ignored(f, u) ==
    \/ ~f.ok
    \/ /\ ~(f.nick # <<>> /\ f.jid # "" /\ f.jid \notin DOMAIN u)
       /\ ~(f.nick # <<>> /\ f.jid \in DOMAIN u /\ u[f.jid] # f.nick)
       /\ ~(f.type = "unavailable" /\ f.jid \in DOMAIN u)

\* C25: an ignored frame writes no NOTICE, leaves the membership table as it is,
\* and Run goes on to the next read.
C25_IgnoredFrames ==
    [][\A f \in Frames :
        (Handled(f) /\ Ignored(f, users)) =>
            /\ notices' = notices
            /\ users' = users
            /\ pc' = "select"
            /\ conn' = conn
    ]_vars

\* a stanza with a nick and no key was handled while the table held a record
C25_Witness ==
    /\ pc = "select"
    /\ v.ok /\ v.nick # <<>> /\ v.jid = ""
    /\ users # <<>>
    /\ Len(notices) = 1

SignsOf(k) == [i \in 1..Len(NoticesOf(k)) |-> NoticesOf(k)[i].sign]

CountSign(sg) == Cardinality({i \in 1..Len(notices) : notices[i].sign = sg})

\* C27: the number of records equals the number of "arrived" NOTICEs minus the
\* number of "left" NOTICEs, and for each key the NOTICEs alternate, starting with
\* "arrived", the last one being "arrived" exactly when the key has a record.
C27_NoticeAccounting ==
    /\ Cardinality(DOMAIN users) = CountSign("+") - CountSign("-")
    /\ \A k \in Jids \cup {""} :
          /\ \A i \in 1..Len(SignsOf(k)) : SignsOf(k)[i] = (IF i % 2 = 1 THEN "+" ELSE "-")
          /\ (k \in DOMAIN users) = (Len(SignsOf(k)) % 2 = 1)

\* one participant arrived and left again, Run is on its second connection
C27_Witness ==
    /\ conn = 2
    /\ pc \in Streaming
    /\ Len(notices) = 2
    /\ notices[1].sign = "+" /\ notices[2].sign = "-"
    /\ users = <<>>

\* C28: every name stored in the table is a non-empty string, and every NOTICE
\* carries the rendering of a non-empty name.
C28_StoredNamesNonEmpty ==
    /\ \A k \in DOMAIN users : users[k] # <<>>
    /\ \A i \in 1..Len(notices) : \E n \in Nicks : notices[i].text = Obfuscate(n)

\* a record was renamed: the stored name is not the one of its "arrived" NOTICE
C28_Witness ==
    /\ Len(notices) = 1
    /\ notices[1].sign = "+"
    /\ notices[1].jid \in DOMAIN users
    /\ Obfuscate(users[notices[1].jid]) # notices[1].text

\* C29: a stanza of type "unavailable" never adds a record and never writes an
\* "arrived" NOTICE.
C29_DepartureCreatesNobody ==
    [][\A f \in Stanzas :
        (Handled(f) /\ f.type = "unavailable") =>
            /\ DOMAIN users' \subseteq DOMAIN users
            /\ CountSign("+")' = CountSign("+")
    ]_vars

\* C30: at most one keepalive task is alive, and it is the one of the current
\* connection.
C30_OneKeepalive ==
    /\ Cardinality({c \in DOMAIN keepalive : keepalive[c] = "alive"}) <= 1
    /\ \A c \in DOMAIN keepalive : keepalive[c] = "alive" => c = conn

(***************************************************************************)
(* listSubstract                                                           *)
(***************************************************************************)

MaxLen == 3
MaxUsers == 3

SeqsUpTo(S, n) == UNION {[1..k -> S] : k \in 0..n}

\* for _, x := range b { mb[x] = true }
RECURSIVE MarkAll(_, _, _)
MarkAll(b, i, mb) ==
    IF i > Len(b) THEN mb ELSE MarkAll(b, i + 1, mb \cup {b[i]})

\* for _, x := range a { if _, found := mb[x]; !found { ret = append(ret, x) } }
RECURSIVE AppendMissing(_, _, _, _)
AppendMissing(a, mb, i, ret) ==
    IF i > Len(a) THEN ret
    ELSE AppendMissing(a, mb, i + 1, IF a[i] \notin mb THEN Append(ret, a[i]) ELSE ret)

\* mutant of listSubstract: the map is filled from a instead of b
listSubstractOwnMap(a, b) == AppendMissing(a, MarkAll(a, 1, {}), 1, <<>>)

RECURSIVE PrependMissing(_, _, _, _)
PrependMissing(a, mb, i, ret) ==
    IF i > Len(a) THEN ret
    ELSE PrependMissing(a, mb, i + 1, IF a[i] \notin mb THEN <<a[i]>> \o ret ELSE ret)

\* mutant of listSubstract: the missing elements are collected in reverse order
listSubstractReversed(a, b) == PrependMissing(a, MarkAll(b, 1, {}), 1, <<>>)

listSubstract(a, b) == AppendMissing(a, MarkAll(b, 1, {}), 1, <<>>)

Snapshots == SeqsUpTo(Names, MaxLen)

DInit ==
    /\ kind = "diff"
    /\ pc = "input"
    /\ current \in Snapshots
    /\ previous \in Snapshots
    /\ arrived = <<>>
    /\ left = <<>>
    /\ alsoThere = <<>>
    /\ lines = <<>>
    /\ err = "notick"
    /\ lastFetched = <<>>
    /\ done = NilChan
    /\ offered = FALSE

\* the three calls of a diff cycle
Diff ==
    /\ kind = "diff"
    /\ pc = "input"
    /\ arrived' = listSubstract(current, previous)
    /\ left' = listSubstract(previous, current)
    /\ alsoThere' = listSubstract(previous, left')
    /\ pc' = "output"
    /\ UNCHANGED <<kind, previous, current, lines, err, lastFetched, done, offered, jvars, wvars>>
    /\ UNCHANGED <<hvars, gvars>>

DNext == Diff

(***************************************************************************)
(* Properties of listSubstract (SpecDiff)                                  *)
(***************************************************************************)

\* C8: arrived, left and alsoThere are pairwise disjoint as sets, arrived and
\* alsoThere together hold exactly the elements of current, and left and alsoThere
\* together exactly the elements of previous.
C8_Partition ==
    pc = "output" =>
        /\ Range(arrived) \cap Range(left) = {}
        /\ Range(arrived) \cap Range(alsoThere) = {}
        /\ Range(left) \cap Range(alsoThere) = {}
        /\ Range(arrived) \cup Range(alsoThere) = Range(current)
        /\ Range(left) \cup Range(alsoThere) = Range(previous)

\* a diff of two snapshots with a repeated element in which all three parts are
\* non-empty
C8_Witness ==
    /\ pc = "output"
    /\ arrived # <<>> /\ left # <<>> /\ alsoThere # <<>>
    /\ Cardinality(Range(previous)) < Len(previous)

AbsentFrom(s, t) == SelectSeq(s, LAMBDA x : \A i \in 1..Len(t) : t[i] # x)

\* C9: arrived is the subsequence of current of the elements absent from previous,
\* left the subsequence of previous of the elements absent from current; equal
\* snapshots give two empty lists, an empty previous gives arrived = current and an
\* empty current gives left = previous.
C9_OrderAndBoundaries ==
    pc = "output" =>
        /\ arrived = AbsentFrom(current, previous)
        /\ left = AbsentFrom(previous, current)
        /\ current = previous => (arrived = <<>> /\ left = <<>>)
        /\ previous = <<>> => arrived = current
        /\ current = <<>> => left = previous

\* two different arrivals, in the order of current, around one that stayed
C9_Witness ==
    /\ pc = "output"
    /\ Len(current) = 3 /\ current[2] \in Range(previous)
    /\ Len(arrived) = 2 /\ arrived[1] # arrived[2]
    /\ arrived = <<current[1], current[3]>>

\* the non-empty strings over three byte values, up to MaxLen bytes
ByteStrings == UNION {[1..k -> {97, 111, 195}] : k \in 1..MaxLen}

ObfuscateInjective ==
    \A s \in ByteStrings : \A t \in ByteStrings : s # t => Obfuscate(s) # Obfuscate(t)

\* atResponse.UserList of notifier.go's era gives the names as they are;
\* UserListZWS gives their renderings
RECURSIVE Rendered(_)
Rendered(l) == IF l = <<>> THEN <<>> ELSE <<Obfuscate(Head(l))>> \o Rendered(Tail(l))

\* C16: two distinct non-empty names have distinct renderings, and the diff of the
\* rendered snapshots is the rendering of the diff of the raw snapshots, for arrived
\* and for left.
C16_ObfuscationKeepsDiff ==
    /\ ObfuscateInjective
    /\ pc = "output" =>
          /\ listSubstract(Rendered(current), Rendered(previous)) = Rendered(arrived)
          /\ listSubstract(Rendered(previous), Rendered(current)) = Rendered(left)

\* "a" arrived and "ao" left: two names that differ only after their first character
C16_Witness ==
    /\ pc = "output"
    /\ NameA \in Range(arrived)
    /\ NameB \in Range(left)

(***************************************************************************)
(* atMonitor.Run (at.go) and spaceApiClient.Run                            *)
(***************************************************************************)

\* logins as the APIs may deliver them: a name, or the empty string
Logins == Names \cup {<<>>}

\* atResponse.Users (the Login fields): up to MaxUsers names, or an empty login,
\* alone or after a name
AtBodies ==
    SeqsUpTo(Names, MaxUsers) \cup {<<l>> : l \in Logins} \cup {<<n, <<>>>> : n \in Names}

\* spaceApiResponse.Sensors.PeopleNowPresent (the Names fields): no room, one room,
\* or the same names split over two rooms that both hold somebody
SpaceApiBodies ==
    {<<>>} \cup {<<l>> : l \in AtBodies}
           \cup UNION {{<<SubSeq(l, 1, k), SubSeq(l, k + 1, Len(l))>> : k \in 1..(Len(l) - 1)} : l \in AtBodies}

Bodies(k) == IF k = "at" THEN AtBodies ELSE SpaceApiBodies

\* atResponse.UserListZWS; the slicing of an empty login panics
RECURSIVE atUserListZWS(_)
atUserListZWS(us) ==
    IF us = <<>> THEN <<>> ELSE <<Obfuscate(Head(us))>> \o atUserListZWS(Tail(us))

\* spaceApiResponse.UserListZWS: the rooms one after the other
RECURSIVE spaceApiUserListZWS(_)
spaceApiUserListZWS(rooms) ==
    IF rooms = <<>> THEN <<>>
    ELSE atUserListZWS(Head(rooms)) \o spaceApiUserListZWS(Tail(rooms))

RECURSIVE Flatten(_)
Flatten(rooms) == IF rooms = <<>> THEN <<>> ELSE Head(rooms) \o Flatten(Tail(rooms))

\* user[:1] of an empty string: slice bounds out of range
Panics(k, body) == <<>> \in Range(IF k = "at" THEN body ELSE Flatten(body))

UserListZWS(k, body) == IF k = "at" THEN atUserListZWS(body) ELSE spaceApiUserListZWS(body)

\* byte-wise order of Go strings
StrLess(s, t) ==
    \E i \in 1..(Len(s) + 1) :
        /\ \A j \in 1..(i - 1) : j <= Len(t) /\ s[j] = t[j]
        /\ i <= Len(t)
        /\ (i > Len(s) \/ s[i] < t[i])

RECURSIVE InsertSorted(_, _)
InsertSorted(x, s) ==
    IF s = <<>> THEN <<x>>
    ELSE IF StrLess(Head(s), x) THEN <<Head(s)>> \o InsertSorted(x, Tail(s))
    ELSE <<x>> \o s

\* sort.Strings
RECURSIVE SortStrings(_)
SortStrings(s) == IF s = <<>> THEN <<>> ELSE InsertSorted(Head(s), SortStrings(Tail(s)))

\* at.go uses the list as listSubtract returns it, spaceapi.go sorts it
AlsoThereOf(k, prev, gone) ==
    IF k = "spaceapi" THEN SortStrings(listSubstract(prev, gone)) ELSE listSubstract(prev, gone)

\* mutant of DiffText: "diffText =" instead of "diffText +=" for the left segment
DiffTextOverwritten(arr, lft) ==
    IF Len(lft) > 0 THEN <<[label |-> "left", names |-> lft]>>
    ELSE IF Len(arr) > 0 THEN <<[label |-> "arrived", names |-> arr]>>
    ELSE <<>>

\* mutant of DiffText: departures are not reported
DiffTextArrivedOnly(arr, lft) ==
    IF Len(arr) > 0 THEN <<[label |-> "arrived", names |-> arr]>> ELSE <<>>

\* diffText, as the segments appended to it
DiffText(arr, lft) ==
    (IF Len(arr) > 0 THEN <<[label |-> "arrived", names |-> arr]>> ELSE <<>>)
    \o (IF Len(lft) > 0 THEN <<[label |-> "left", names |-> lft]>> ELSE <<>>)

WithAlsoThere(text, also) ==
    IF Len(also) > 0 THEN Append(text, [label |-> "also there", names |-> also]) ELSE text

\* a.channel / s.ircChannel
Channel(k) == IF k = "at" THEN "#at" ELSE "#spaceapi"

\* fmt.Sprintf("NOTICE %s :%s\n", channel, diffText)
PollNotice(k, text) == [cmd |-> "NOTICE", to |-> Channel(k), text |-> text]

PInit ==
    /\ kind \in {"at", "spaceapi"}
    /\ pc = "select"
    /\ previous = <<>>
    /\ current = <<>>
    /\ arrived = <<>>
    /\ left = <<>>
    /\ alsoThere = <<>>
    /\ lines = <<>>
    /\ err = "notick"
    /\ lastFetched = <<>>
    /\ done \in {NilChan, OpenChan}
    /\ offered = FALSE

\* mutant of TickError: a failed tick forgets the stored snapshot
TickErrorClearsSnapshot(e) ==
    /\ kind \in {"at", "spaceapi"}
    /\ pc = "select"
    /\ err' = e
    /\ current' = <<>>
    /\ arrived' = <<>>
    /\ left' = <<>>
    /\ alsoThere' = <<>>
    /\ lines' = <<>>
    /\ previous' = <<>>
    /\ UNCHANGED <<kind, pc, lastFetched, done, offered, jvars, wvars>>
    /\ UNCHANGED <<hvars, gvars>>

\* case <-ticker.C with a failing a.at() / s.currentState(): log and break
TickError(e) ==
    /\ kind \in {"at", "spaceapi"}
    /\ pc = "select"
    /\ err' = e
    /\ current' = <<>>
    /\ arrived' = <<>>
    /\ left' = <<>>
    /\ alsoThere' = <<>>
    /\ lines' = <<>>
    /\ UNCHANGED <<kind, previous, pc, lastFetched, done, offered, jvars, wvars>>
    /\ UNCHANGED <<hvars, gvars>>

\* case <-ticker.C with a decoded response
Tick(body) ==
    /\ kind \in {"at", "spaceapi"}
    /\ pc = "select"
    /\ err' = "none"
    /\ IF Panics(kind, body)
       THEN /\ pc' = "panicked"
            /\ current' = <<>>
            /\ arrived' = <<>>
            /\ left' = <<>>
            /\ alsoThere' = <<>>
            /\ lines' = <<>>
            /\ previous' = previous
            /\ lastFetched' = lastFetched
       ELSE /\ pc' = pc
            /\ current' = UserListZWS(kind, body)
            /\ lastFetched' = current'
            /\ arrived' = listSubstract(current', previous)
            /\ left' = listSubstract(previous, current')
            /\ alsoThere' = AlsoThereOf(kind, previous, left')
            /\ IF Len(DiffText(arrived', left')) > 0
               THEN /\ lines' = <<PollNotice(kind, WithAlsoThere(DiffText(arrived', left'), alsoThere'))>>
                    /\ previous' = current'
               ELSE /\ lines' = <<>>
                    /\ previous' = previous
    /\ UNCHANGED <<kind, done, offered, jvars, wvars>>
    /\ UNCHANGED <<hvars, gvars>>

\* case <-done: return
PollReturn ==
    /\ kind \in {"at", "spaceapi"}
    /\ pc = "select"
    /\ CanReceive
    /\ pc' = "stopped"
    /\ offered' = FALSE
    /\ UNCHANGED <<kind, previous, current, arrived, left, alsoThere, lines, err, lastFetched, done, jvars, wvars>>
    /\ UNCHANGED <<hvars, gvars>>

PNext ==
    \/ \E e \in {"fetch", "decode"} : TickError(e)
    \/ \E body \in Bodies(kind) : Tick(body)
    \/ PollReturn
    \/ pc = "select" /\ OfferShutdown

(***************************************************************************)
(* Properties of the polling watchers (SpecPoll)                           *)
(***************************************************************************)

\* a tick whose fetch and decode succeeded and whose diff was computed
TickDone ==
    /\ pc = "select" /\ pc' = "select"
    /\ err' = "none"
    /\ offered' = offered

Labels(text) == [i \in 1..Len(text) |-> text[i].label]

\* C10: a tick whose fetch and decode succeed writes one NOTICE to the configured
\* channel if arrived or left is non-empty and nothing otherwise; the NOTICE holds
\* the arrived segment iff arrived is non-empty, then the left segment iff left is
\* non-empty, then the also-there segment iff alsoThere is non-empty; after a tick
\* that wrote a NOTICE the stored snapshot is the fetched one; and previous
\* [a, ao] with fetched [ao, ev] gives arrived [ev], left [a], also there [ao],
\* stored [ao, ev].
C10_OneNoticePerChange ==
    [][TickDone =>
        /\ Len(lines') = (IF arrived' # <<>> \/ left' # <<>> THEN 1 ELSE 0)
        /\ lines' # <<>> =>
             /\ lines'[1].cmd = "NOTICE"
             /\ lines'[1].to = Channel(kind)
             /\ Labels(lines'[1].text) =
                    (IF arrived' # <<>> THEN <<"arrived">> ELSE <<>>)
                    \o (IF left' # <<>> THEN <<"left">> ELSE <<>>)
                    \o (IF alsoThere' # <<>> THEN <<"also there">> ELSE <<>>)
             /\ \A i \in 1..Len(lines'[1].text) :
                    lines'[1].text[i].names =
                        (CASE lines'[1].text[i].label = "arrived" -> arrived'
                           [] lines'[1].text[i].label = "left" -> left'
                           [] OTHER -> alsoThere')
             /\ previous' = current'
        /\ (previous = <<Obfuscate(NameA), Obfuscate(NameB)>>
               /\ current' = <<Obfuscate(NameB), Obfuscate(NameC)>>)
             => /\ arrived' = <<Obfuscate(NameC)>>
                /\ left' = <<Obfuscate(NameA)>>
                /\ alsoThere' = <<Obfuscate(NameB)>>
                /\ previous' = <<Obfuscate(NameB), Obfuscate(NameC)>>
    ]_vars

\* the tick of the example has run: one NOTICE with all three segments
C10_Witness ==
    /\ err = "none"
    /\ pc = "select"
    /\ arrived = <<Obfuscate(NameC)>>
    /\ left = <<Obfuscate(NameA)>>
    /\ alsoThere = <<Obfuscate(NameB)>>
    /\ previous = <<Obfuscate(NameB), Obfuscate(NameC)>>
    /\ Len(lines) = 1
    /\ Labels(lines[1].text) = <<"arrived", "left", "also there">>

\* s is in the order sort.Strings leaves it in
IsSorted(s) == \A i \in 1..(Len(s) - 1) : ~StrLess(s[i + 1], s[i])

\* C11: in both polling watchers the also-there list of every NOTICE is in
\* lexicographically sorted order, whatever the order of the stored snapshot.
C11_AlsoThereSorted ==
    [][(TickDone /\ lines' # <<>>) => IsSorted(alsoThere')]_vars

\* a tick whose fetch or decode failed
TickFailed ==
    /\ pc = "select"
    /\ err' \in {"fetch", "decode"}
    /\ offered' = offered

\* C12: a tick whose fetch or decode fails writes no NOTICE, leaves the stored
\* snapshot as it is and leaves the watcher in its loop; the successful tick that
\* follows a failed one diffs against that stored snapshot.
C12_FailedTickIsSkipped ==
    [][/\ TickFailed =>
            /\ lines' = <<>>
            /\ previous' = previous
            /\ pc' = "select"
       /\ (TickDone /\ err \in {"fetch", "decode"}) =>
            /\ arrived' = listSubstract(current', previous)
            /\ left' = listSubstract(previous, current')
    ]_vars

\* a tick has failed after a snapshot was stored, and the watcher is in its loop
C12_Witness ==
    /\ err \in {"fetch", "decode"}
    /\ previous # <<>>
    /\ lines = <<>>
    /\ pc = "select"

\* C13: after every tick whose fetch and decode succeeded the stored snapshot is
\* the fetched one, as a sequence, whether or not a NOTICE was written; a failed
\* tick leaves it as it is.
C13_PreviousIsLastFetched ==
    [][/\ TickDone => previous' = current'
       /\ TickFailed => previous' = previous
    ]_vars

\* C14: no response of the API, whatever logins it holds, ends the watcher or the
\* process.
C14_NoInputTerminates == pc # "panicked"

\* the number of bytes of the first character of s, from its UTF-8 lead byte
FirstCharLen(s) ==
    IF s[1] < 128 THEN 1
    ELSE IF s[1] < 224 THEN 2
    ELSE IF s[1] < 240 THEN 3
    ELSE 4

\* (first character) + zero width space + (remaining characters)
AfterFirstChar(s) ==
    SubSeq(s, 1, FirstCharLen(s)) \o ZWSP \o SubSeq(s, FirstCharLen(s) + 1, Len(s))

\* C15: every rendered name is a name with the zero width space right after its
\* first character, never inside the bytes of that character.
C15_ZwspAfterFirstCharacter ==
    \A i \in 1..Len(current) : \E n \in Names : current[i] = AfterFirstChar(n)

\* C26: after every successful tick the stored snapshot has the same elements as
\* the fetched one; and a watcher that stores the fetched snapshot on every
\* successful tick (its snapshot is lastFetched) writes a NOTICE on the same ticks,
\* with the same sets of arrived, left and also-there names.
C26_ReplaceOnChangeSuffices ==
    [][TickDone =>
        /\ Range(previous') = Range(current')
        /\ Range(lastFetched) = Range(previous)
        /\ (lines' # <<>>) =
              (listSubstract(current', lastFetched) # <<>> \/ listSubstract(lastFetched, current') # <<>>)
        /\ Range(listSubstract(current', lastFetched)) = Range(arrived')
        /\ Range(listSubstract(lastFetched, current')) = Range(left')
        /\ Range(AlsoThereOf(kind, lastFetched, listSubstract(lastFetched, current'))) = Range(alsoThere')
    ]_vars

\* a successful tick has found no change and written no NOTICE, and the stored
\* snapshot is another sequence than the fetched one
C26_Witness ==
    /\ pc = "select"
    /\ err = "none"
    /\ lines = <<>>
    /\ previous # lastFetched
    /\ Len(previous) = Len(lastFetched)

(***************************************************************************)
(* JitsiRunWrapper and spaceApiRunWrapper                                  *)
(***************************************************************************)

MaxMappings == 2

\* "c", "c,u" and "c,s,r"
MappingStrings == {<<"c">>, <<"c", ",", "u">>, <<"c", ",", "s", ",", "r">>}

\* strings.Split(ch, ","): field is the field being read, args the fields before it
RECURSIVE SplitFrom(_, _, _, _)
SplitFrom(ch, i, field, args) ==
    IF i > Len(ch) THEN Append(args, field)
    ELSE IF ch[i] = "," THEN SplitFrom(ch, i + 1, <<>>, Append(args, field))
    ELSE SplitFrom(ch, i + 1, Append(field, ch[i]), args)

Split(ch) == SplitFrom(ch, 1, <<>>, <<>>)

\* len(args) != 3 in JitsiRunWrapper, len(args) != 2 in spaceApiRunWrapper
JitsiFields == 3
SpaceApiFields == 2
Fields(k) == IF k = "jitsi" THEN JitsiFields ELSE SpaceApiFields

\* make([]chan bool, n): n zero values of type chan bool
MakeChans(n) == [i \in 1..n |-> NilChan]

WInit ==
    /\ kind \in {"jitsi", "spaceapi"}
    /\ channels \in SeqsUpTo(MappingStrings, MaxMappings)
    /\ doneChans = MakeChans(Len(channels))
    /\ idx = 1
    /\ watchers = <<>>
    /\ pc = "range"
    /\ done = OpenChan
    /\ offered = FALSE

\* one iteration of "for i, ch := range channels": log.Fatalln ends the process,
\* otherwise the watcher of the entry is started
StartWatcher ==
    /\ pc = "range"
    /\ idx <= Len(channels)
    /\ IF Len(Split(channels[idx])) # Fields(kind)
       THEN /\ pc' = "exited"
            /\ UNCHANGED <<idx, watchers>>
       ELSE /\ watchers' = watchers @@ (idx :> "running")
            /\ idx' = idx + 1
            /\ pc' = pc
    /\ UNCHANGED <<kind, channels, doneChans, done, offered, jvars>>
    /\ UNCHANGED <<previous, current, arrived, left, alsoThere, lines, err, lastFetched>>
    /\ UNCHANGED <<hvars, gvars>>

\* the range loop is over: "<-done"
AwaitShutdown ==
    /\ pc = "range"
    /\ idx > Len(channels)
    /\ pc' = "wait"
    /\ UNCHANGED <<done, offered, jvars, dvars, wvars>>
    /\ UNCHANGED <<hvars, gvars>>

\* "<-done" returns; the second range loop starts
ReceiveShutdown ==
    /\ pc = "wait"
    /\ CanReceive
    /\ offered' = FALSE
    /\ pc' = "send"
    /\ idx' = 1
    /\ UNCHANGED <<done, jvars, dvars, channels, doneChans, watchers>>
    /\ UNCHANGED <<hvars, gvars>>

\* "for _, ch := range jitsiDone" is over: the wrapper returns
WrapperReturn ==
    /\ pc = "send"
    /\ idx > Len(doneChans)
    /\ pc' = "returned"
    /\ UNCHANGED <<done, offered, jvars, dvars, wvars>>
    /\ UNCHANGED <<hvars, gvars>>

\* the wrapper is blocked in "ch <- true" on the channel of watcher i
SendingTo(i) == pc = "send" /\ idx = i /\ i <= Len(doneChans)

\* watcher i reaches its select: with a sender on a channel that is not nil it takes
\* "case <-done" and returns, and the wrapper's send completes; otherwise it goes on
WatcherSelect(i) ==
    /\ pc # "exited"
    /\ i \in DOMAIN watchers
    /\ watchers[i] = "running"
    /\ IF SendingTo(i) /\ doneChans[i] # NilChan
       THEN /\ watchers' = [watchers EXCEPT ![i] = "stopped"]
            /\ idx' = idx + 1
       ELSE UNCHANGED <<watchers, idx>>
    /\ UNCHANGED <<pc, done, offered, jvars, dvars, channels, doneChans>>
    /\ UNCHANGED <<hvars, gvars>>

\* the runtime sends on the wrapper's own channel
WOfferShutdown ==
    /\ pc \in {"range", "wait"}
    /\ ~offered
    /\ offered' = TRUE
    /\ UNCHANGED <<pc, done, jvars, dvars, wvars>>
    /\ UNCHANGED <<hvars, gvars>>

WNext ==
    \/ StartWatcher
    \/ AwaitShutdown
    \/ ReceiveShutdown
    \/ WrapperReturn
    \/ \E i \in 1..Len(channels) : WatcherSelect(i)
    \/ WOfferShutdown

(***************************************************************************)
(* Properties of the wrappers (SpecWrap, FairSpecWrap)                     *)
(***************************************************************************)

\* C6: once a wrapper that started at least one watcher has received the shutdown
\* signal, each of its watchers eventually stops and the wrapper returns.
C6_ShutdownFansOut ==
    (pc = "send" /\ Len(channels) >= 1)
        ~> (pc = "returned" /\ \A i \in DOMAIN watchers : watchers[i] = "stopped")

\* C7: when a mapping string with the wrong number of fields ends the process, no
\* watcher has been started.
C7_NoWatcherBeforeExit == pc = "exited" => watchers = <<>>

(***************************************************************************)
(* httpGet                                                                 *)
(***************************************************************************)

\* the cap, scaled down from 5*1024*1024
Cap == 3

\* mutant of Limit: the reader is limited to less than the buffer holds
LimitBelowBuffer == Cap - 1

\* http.MaxBytesReader(nil, resp.Body, 5*1024*1024)
Limit == Cap

\* make([]byte, 5*1024*1024)
BufLen == Cap

ByteValues == {0, 1}

\* bodies of up to two bytes more than the cap
Responses == SeqsUpTo(ByteValues, Cap + 2)

NoReturn == [data |-> <<>>, err |-> "pending"]

Min(a, b) == IF a < b THEN a ELSE b

\* what resp.Body.Read(p) may return for len(p) = plen with rest bytes of the body
\* left: some of them, the last of them together with io.EOF or followed by it, or
\* an error of the transport
BodyReads(plen, rest) ==
    {<<k, "nil">> : k \in 1..Min(plen, rest)}
        \cup (IF rest <= plen THEN {<<rest, "EOF">>} ELSE {})
        \cup {<<0, "transport">>}

\* maxBytesReader.Read: the length of p it passes on to resp.Body
PassedOn(plen, n) == IF plen - 1 > n THEN n + 1 ELSE plen

\* maxBytesReader.Read: <<bytes returned, error returned, l.n afterwards>> when
\* resp.Body returned k bytes and the error e
LimitedRead(k, e, n) ==
    IF k <= n THEN <<k, e, n - k>> ELSE <<n, "too large", 0>>

\* io.ReadFull = io.ReadAtLeast(r, buf, len(buf)): the error returned once the loop
\* has ended with n bytes read and the error e of the last Read
ReadFullErr(n, e) ==
    IF n >= BufLen THEN "nil"
    ELSE IF n > 0 /\ e = "EOF" THEN "ErrUnexpectedEOF"
    ELSE e

\* buf as a whole: the bytes read, then the zero bytes make left there
RECURSIVE Padded(_)
Padded(b) == IF Len(b) >= BufLen THEN b ELSE Padded(Append(b, 0))

\* the tail of httpGet: what it returns for the n bytes read and the error of io.ReadFull
Returned(b, e) ==
    IF e = "ErrUnexpectedEOF" THEN [data |-> b, err |-> "nil"]
    ELSE IF e # "nil" THEN [data |-> <<>>, err |-> e]
    ELSE [data |-> Padded(b), err |-> "nil"]

HInit ==
    /\ kind = "http"
    /\ pc = "do"
    /\ resp \in Responses
    /\ off = 0
    /\ lim = Limit
    /\ hbuf = <<>>
    /\ rerr = "nil"
    /\ got = NoReturn
    /\ done = NilChan
    /\ offered = FALSE

\* http.NewRequest and client.Do
DoRequest ==
    /\ pc = "do"
    /\ \E ok \in BOOLEAN :
          IF ok THEN pc' = "readfull" /\ got' = got
          ELSE pc' = "got" /\ got' = [data |-> <<>>, err |-> "transport"]
    /\ UNCHANGED <<resp, off, lim, hbuf, rerr>>
    /\ UNCHANGED <<done, offered, jvars, dvars, wvars, gvars>>

\* one iteration of the loop of io.ReadAtLeast: limitedResponse.Read(buf[n:])
ReadStep ==
    /\ pc = "readfull"
    /\ Len(hbuf) < BufLen
    /\ rerr = "nil"
    /\ \E r \in BodyReads(PassedOn(BufLen - Len(hbuf), lim), Len(resp) - off) :
          /\ off' = off + r[1]
          /\ hbuf' = hbuf \o SubSeq(resp, off + 1, off + LimitedRead(r[1], r[2], lim)[1])
          /\ rerr' = LimitedRead(r[1], r[2], lim)[2]
          /\ lim' = LimitedRead(r[1], r[2], lim)[3]
    /\ UNCHANGED <<pc, resp, got>>
    /\ UNCHANGED <<done, offered, jvars, dvars, wvars, gvars>>

\* the loop has ended: the rest of httpGet
ReturnData ==
    /\ pc = "readfull"
    /\ Len(hbuf) >= BufLen \/ rerr # "nil"
    /\ got' = Returned(hbuf, ReadFullErr(Len(hbuf), rerr))
    /\ pc' = "got"
    /\ UNCHANGED <<resp, off, lim, hbuf, rerr>>
    /\ UNCHANGED <<done, offered, jvars, dvars, wvars, gvars>>

HNext == DoRequest \/ ReadStep \/ ReturnData

(***************************************************************************)
(* Properties of httpGet (SpecHttp)                                        *)
(***************************************************************************)

\* client.Do succeeded and no Read of the body failed
TransportOk == got.err # "transport"

\* C17: for a body longer than the cap, a transport-successful httpGet returns
\* exactly the first Cap bytes of the body and no error.
C17_TruncatesAtCap ==
    (pc = "got" /\ Len(resp) > Cap /\ TransportOk)
        => got = [data |-> SubSeq(resp, 1, Cap), err |-> "nil"]

\* a body of Cap + 1 bytes was fetched and Cap bytes came back
C17_Witness ==
    /\ pc = "got"
    /\ Len(resp) = Cap + 1
    /\ got.err = "nil"
    /\ Len(got.data) = Cap

\* C18: for a body of 0 to Cap bytes, a transport-successful httpGet returns the
\* whole body, no byte more, and no error.
C18_WholeBodyWithinCap ==
    (pc = "got" /\ Len(resp) <= Cap /\ TransportOk)
        => got = [data |-> resp, err |-> "nil"]

(***************************************************************************)
(* Dispatchers.Add and handlerFactory (plugins.go)                         *)
(***************************************************************************)

MaxMessages == 2

\* the callbacks registered from init()
Registrants == {"logger", "joiner"}

\* m.Command of an inbound message
Commands == {"001", "PING"}

\* the number of messages the handler has been called with so far
Received == Len(heap) - Len(tasks)

\* mutant of Copy: the dispatcher is handed m itself
CopyShared(m, fresh) == m

\* m.Copy(): a pointer to a newly allocated message
Copy(m, fresh) == fresh

GInit ==
    /\ kind = "registry"
    /\ pc = "register"
    /\ list = <<>>
    /\ lock = "free"
    /\ adding = [a \in Registrants |-> [at |-> "start", seen |-> <<>>]]
    /\ handler = "none"
    /\ heap = <<>>
    /\ tasks = <<>>
    /\ inbound = 0
    /\ di = 1
    /\ done = NilChan
    /\ offered = FALSE

\* d.lock.Lock()
AddLock(a) ==
    /\ adding[a].at = "start"
    /\ lock = "free"
    /\ lock' = a
    /\ adding' = [adding EXCEPT ![a].at = "locked"]
    /\ UNCHANGED <<pc, list, handler, heap, tasks, inbound, di>>
    /\ UNCHANGED <<done, offered, jvars, dvars, wvars, hvars>>

\* append(d.list, f): the list is read
AddRead(a) ==
    /\ adding[a].at = "locked"
    /\ adding' = [adding EXCEPT ![a] = [at |-> "read", seen |-> list]]
    /\ UNCHANGED <<pc, list, lock, handler, heap, tasks, inbound, di>>
    /\ UNCHANGED <<done, offered, jvars, dvars, wvars, hvars>>

\* d.list = ...: the list is written, and the deferred d.lock.Unlock() runs
AddWrite(a) ==
    /\ adding[a].at = "read"
    /\ list' = Append(adding[a].seen, a)
    /\ lock' = "free"
    /\ adding' = [adding EXCEPT ![a].at = "done"]
    /\ UNCHANGED <<pc, handler, heap, tasks, inbound, di>>
    /\ UNCHANGED <<done, offered, jvars, dvars, wvars, hvars>>

\* handlerFactory(dispatchers): the closure captures the slice it is given
BuildHandler ==
    /\ pc = "register"
    /\ handler' = list
    /\ pc' = "idle"
    /\ UNCHANGED <<list, lock, adding, heap, tasks, inbound, di>>
    /\ UNCHANGED <<done, offered, jvars, dvars, wvars, hvars>>

\* the IRC client calls the handler with a message m
CallHandler(c) ==
    /\ pc = "idle"
    /\ Received < MaxMessages
    /\ heap' = Append(heap, c)
    /\ inbound' = Len(heap) + 1
    /\ di' = 1
    /\ pc' = "range"
    /\ UNCHANGED <<list, lock, adding, handler, tasks>>
    /\ UNCHANGED <<done, offered, jvars, dvars, wvars, hvars>>

\* one iteration of "for _, f := range dispatchers": go f(c, m.Copy())
StartTask ==
    /\ pc = "range"
    /\ di <= Len(handler)
    /\ heap' = Append(heap, heap[inbound])
    /\ tasks' = Append(tasks, [f |-> handler[di], m |-> Copy(inbound, Len(heap) + 1), of |-> inbound])
    /\ di' = di + 1
    /\ UNCHANGED <<pc, list, lock, adding, handler, inbound>>
    /\ UNCHANGED <<done, offered, jvars, dvars, wvars, hvars>>

\* the range loop is over: the handler returns
HandlerReturn ==
    /\ pc = "range"
    /\ di > Len(handler)
    /\ pc' = "idle"
    /\ inbound' = 0
    /\ UNCHANGED <<list, lock, adding, handler, heap, tasks, di>>
    /\ UNCHANGED <<done, offered, jvars, dvars, wvars, hvars>>

\* the dispatcher of task t writes to the message it was given (its own name, so
\* that the writer can be told)
Mutate(t) ==
    /\ heap[tasks[t].m] # tasks[t].f
    /\ heap' = [heap EXCEPT ![tasks[t].m] = tasks[t].f]
    /\ UNCHANGED <<pc, list, lock, adding, handler, tasks, inbound, di>>
    /\ UNCHANGED <<done, offered, jvars, dvars, wvars, hvars>>

GNext ==
    \/ \E a \in Registrants : AddLock(a)
    \/ \E a \in Registrants : AddRead(a)
    \/ \E a \in Registrants : AddWrite(a)
    \/ BuildHandler
    \/ \E c \in Commands : CallHandler(c)
    \/ StartTask
    \/ HandlerReturn
    \/ \E t \in 1..Len(tasks) : Mutate(t)

(***************************************************************************)
(* Properties of the registry (SpecRegistry)                               *)
(***************************************************************************)

Occurrences(l, x) == Cardinality({i \in 1..Len(l) : l[i] = x})

\* the dispatchers of the tasks started for the message r, in the order started
StartedFor(r) ==
    [i \in 1..Len(SelectSeq(tasks, LAMBDA t : t.of = r)) |->
        SelectSeq(tasks, LAMBDA t : t.of = r)[i].f]

\* the messages the handler has been called with
Inbound == {tasks[t].of : t \in 1..Len(tasks)} \cup (IF inbound # 0 THEN {inbound} ELSE {})

FanOutOk ==
    \* no registration is lost or doubled
    /\ \A a \in Registrants : adding[a].at = "done" => Occurrences(list, a) = 1
    \* one task per captured dispatcher per message: all of them once the handler
    \* has returned, those before di while it is in its loop
    /\ \A r \in Inbound :
          StartedFor(r) = SubSeq(handler, 1, IF r = inbound THEN di - 1 ELSE Len(handler))
    \* each task has a message of its own, which is not the original
    /\ \A t \in 1..Len(tasks) :
          /\ tasks[t].m # tasks[t].of
          /\ \A u \in 1..Len(tasks) : u # t => tasks[u].m # tasks[t].m
    \* what a task reads in its message is the original content or what its own
    \* dispatcher wrote, and the original is as it was received
    /\ \A t \in 1..Len(tasks) :
          /\ heap[tasks[t].of] \in Commands
          /\ heap[tasks[t].m] \in {heap[tasks[t].of], tasks[t].f}

\* C19: the handler built by handlerFactory holds every dispatcher whose Add had
\* completed when it was built, concurrent Adds lose no registration, and for every
\* inbound message the handler starts exactly one task per dispatcher it holds, each
\* with its own copy of the message, so that no task ever reads what the dispatcher
\* of another task wrote.
C19_FanOut ==
    [][/\ (pc = "register" /\ pc' = "idle") =>
            /\ handler' = list
            /\ \A a \in Registrants : adding[a].at = "done" => Occurrences(handler', a) = 1
       /\ FanOutOk'
    ]_vars

\* both dispatchers were registered, a message went to both, one of them has written
\* to its copy and the other's copy still reads as the original
C19_Witness ==
    /\ pc = "idle"
    /\ handler # "none" /\ Len(handler) = 2
    /\ \E t, u \in 1..Len(tasks) :
          /\ tasks[t].of = tasks[u].of
          /\ tasks[t].f # tasks[u].f
          /\ heap[tasks[t].m] = tasks[t].f
          /\ heap[tasks[u].m] = heap[tasks[u].of]

(***************************************************************************)
(* The legacy check-in monitor: atMonitor.Run of notifier.go and of the    *)
(* older main.go                                                           *)
(***************************************************************************)

\* notifier.go diffs the logins as they are (UserList), the older main.go their
\* renderings (UserListZWS)
LegacyKinds == {"notifier", "main"}

\* atResponse.UserList
RECURSIVE UserList(_)
UserList(us) == IF us = <<>> THEN <<>> ELSE <<Head(us)>> \o UserList(Tail(us))

LegacyPanics(k, body) == k = "main" /\ <<>> \in Range(body)

LegacyUserList(k, body) == IF k = "notifier" THEN UserList(body) ELSE atUserListZWS(body)

\* diffText: " +[...]" is assigned for arrivals, then " -[...]" is assigned for
\* departures
LegacyDiffText(arr, lft) ==
    IF Len(lft) > 0 THEN <<[label |-> "-", names |-> lft]>>
    ELSE IF Len(arr) > 0 THEN <<[label |-> "+", names |-> arr]>>
    ELSE <<>>

LegacyChannel(k) == IF k = "notifier" THEN "#hswaw-bottest" ELSE "#hswaw-members"

LegacyNotice(k, text) == [cmd |-> "NOTICE", to |-> LegacyChannel(k), text |-> text]

\* main: done := make(chan bool); go a.Run(client, done)
LInit ==
    /\ kind \in LegacyKinds
    /\ pc = "select"
    /\ previous = <<>>
    /\ current = <<>>
    /\ arrived = <<>>
    /\ left = <<>>
    /\ alsoThere = <<>>
    /\ lines = <<>>
    /\ err = "notick"
    /\ lastFetched = <<>>
    /\ done = OpenChan
    /\ offered = FALSE

\* case <-ticker.C with a failing at(): log and break
LegacyTickError(e) ==
    /\ kind \in LegacyKinds
    /\ pc = "select"
    /\ err' = e
    /\ current' = <<>>
    /\ arrived' = <<>>
    /\ left' = <<>>
    /\ lines' = <<>>
    /\ UNCHANGED <<kind, previous, alsoThere, pc, lastFetched, done, offered, jvars, wvars>>
    /\ UNCHANGED <<hvars, gvars>>

\* case <-ticker.C with a decoded response
LegacyTick(body) ==
    /\ kind \in LegacyKinds
    /\ pc = "select"
    /\ err' = "none"
    /\ IF LegacyPanics(kind, body)
       THEN /\ pc' = "panicked"
            /\ current' = <<>>
            /\ arrived' = <<>>
            /\ left' = <<>>
            /\ lines' = <<>>
            /\ previous' = previous
            /\ lastFetched' = lastFetched
       ELSE /\ pc' = pc
            /\ current' = LegacyUserList(kind, body)
            /\ lastFetched' = current'
            /\ arrived' = listSubstract(current', previous)
            /\ left' = listSubstract(previous, current')
            /\ IF Len(LegacyDiffText(arrived', left')) > 0
               THEN /\ lines' = <<LegacyNotice(kind, LegacyDiffText(arrived', left'))>>
                    /\ previous' = current'
               ELSE /\ lines' = <<>>
                    /\ previous' = previous
    /\ UNCHANGED <<kind, alsoThere, done, offered, jvars, wvars>>
    /\ UNCHANGED <<hvars, gvars>>

\* case <-done: return
LegacyReturn ==
    /\ kind \in LegacyKinds
    /\ pc = "select"
    /\ CanReceive
    /\ pc' = "stopped"
    /\ offered' = FALSE
    /\ UNCHANGED <<kind, previous, current, arrived, left, alsoThere, lines, err, lastFetched, done, jvars, wvars>>
    /\ UNCHANGED <<hvars, gvars>>

\* main: client.Run() has failed, "done <- true"
LegacyOfferShutdown == pc = "select" /\ OfferShutdown

LNext ==
    \/ \E e \in {"fetch", "decode"} : LegacyTickError(e)
    \/ \E body \in AtBodies : LegacyTick(body)
    \/ LegacyReturn
    \/ LegacyOfferShutdown

(***************************************************************************)
(* Properties of the legacy monitor (SpecLegacy)                           *)
(***************************************************************************)

\* the names the NOTICE of the last tick holds
NamedIn(ls) == UNION {Range(ls[1].text[i].names) : i \in 1..Len(ls[1].text)}

\* C31: after a tick that found arrivals and departures, one NOTICE was written
\* that names every arrived and every left identity, and the stored snapshot is
\* the fetched one.
C31_LegacyNoticeNamesBoth ==
    (pc = "select" /\ err = "none" /\ arrived # <<>> /\ left # <<>>) =>
        /\ Len(lines) = 1
        /\ Range(arrived) \subseteq NamedIn(lines)
        /\ Range(left) \subseteq NamedIn(lines)
        /\ previous = current

(***************************************************************************)
(* Specifications                                                          *)
(***************************************************************************)

JIdle ==
    /\ users = <<>>
    /\ notices = <<>>
    /\ v = NoStanza
    /\ sent = 0
    /\ conn = 0
    /\ wire = <<>>
    /\ keepalive = <<>>

DIdle ==
    /\ previous = <<>>
    /\ current = <<>>
    /\ arrived = <<>>
    /\ left = <<>>
    /\ alsoThere = <<>>
    /\ lines = <<>>
    /\ err = "notick"
    /\ lastFetched = <<>>

WIdle ==
    /\ channels = <<>>
    /\ idx = 1
    /\ doneChans = <<>>
    /\ watchers = <<>>

HIdle ==
    /\ resp = <<>>
    /\ off = 0
    /\ lim = 0
    /\ hbuf = <<>>
    /\ rerr = "nil"
    /\ got = NoReturn

GIdle ==
    /\ list = <<>>
    /\ lock = "free"
    /\ adding = <<>>
    /\ handler = "none"
    /\ heap = <<>>
    /\ tasks = <<>>
    /\ inbound = 0
    /\ di = 1

Init == JInit /\ kind = "jitsi" /\ DIdle /\ WIdle /\ HIdle /\ GIdle
Next == JNext
Spec == Init /\ [][Next]_vars

\* Run keeps being scheduled; how a dial, a write or a read ends is up to the network
FairSpec == Spec /\ WF_vars(RunStep)

InitDiff == DInit /\ JIdle /\ WIdle /\ HIdle /\ GIdle
SpecDiff == InitDiff /\ [][DNext]_vars

InitPoll == PInit /\ JIdle /\ WIdle /\ HIdle /\ GIdle
SpecPoll == InitPoll /\ [][PNext]_vars

InitWrap == WInit /\ JIdle /\ DIdle /\ HIdle /\ GIdle
SpecWrap == InitWrap /\ [][WNext]_vars

\* the wrapper and its watchers keep being scheduled
FairSpecWrap == SpecWrap /\ WF_vars(WNext)

InitHttp == HInit /\ JIdle /\ DIdle /\ WIdle /\ GIdle
SpecHttp == InitHttp /\ [][HNext]_vars

InitRegistry == GInit /\ JIdle /\ DIdle /\ WIdle /\ HIdle
SpecRegistry == InitRegistry /\ [][GNext]_vars

InitLegacy == LInit /\ JIdle /\ WIdle /\ HIdle /\ GIdle
SpecLegacy == InitLegacy /\ [][LNext]_vars

====
